---- MODULE Spec2Model ----
(***************************************************************************)
(* Model of services/deepgram-transcriber/server.py: the per-connection    *)
(* session bridge (handler, ClientSession) and the process-wide            *)
(* RedisPublisher.                                                         *)
(***************************************************************************)
EXTENDS Integers, Sequences, FiniteSets, TLC

\* ------------------------------------------------------------------ bounds

\* Upstream results applied to one window in SpecBuf, after its initial state.
MaxSteps == 5

\* Publisher calls made in SpecPub.
MaxCalls == 3

\* Upstream results delivered to the session of Spec.
MaxLive == 2

\* Messages the client sends after the handshake in Spec.
MaxMsgs == 2

\* Messages read and results delivered in Spec, together.
MaxEvents == 3

\* The window keeps the last 10 segments (server.py:287-288).
Capacity == 10

\* ------------------------------------------------------------- value sets

None == "None"

\* Transcript texts of non-empty results; EmptyText stands for an empty or
\* whitespace-only transcript (server.py:261).
Texts == {"he", "hello"}
EmptyText == ""

\* An upstream result as _on_transcript reads it: first alternative's text,
\* is_final, speech_final.  start/duration are copied into the segment and
\* never read again, so they are left out.
Results == [text : Texts \cup {EmptyText}, is_final : BOOLEAN, speech_final : BOOLEAN]

\* Session ids (the handshake's uid).
Sids == {"a1", "a2"}

\* The identity fields a session passes to every publisher call.
Idents == [token : {"t"}, platform : {"zoom"}, meeting_id : {"m1"}]

\* What the Redis server does during one publisher call: reach, whether it
\* answers (the ping of a live client and the ping of a new connection both
\* succeed, or both fail); xadd, whether _client.xadd() succeeds (FALSE: it
\* raises and appends nothing).
Envs == [reach : BOOLEAN, xadd : BOOLEAN]
GoodEnv == [reach |-> TRUE, xadd |-> TRUE]

VARIABLES
    client,         \* RedisPublisher._client is not None
    session_starts, \* RedisPublisher._session_starts
    last_digest,    \* RedisPublisher._last_digest (a function on its keys)
    log,            \* the records of the stream REDIS_STREAM_KEY, in order
    lastCall,       \* history (of SpecPub, as those below): the call made last
    prevPayload,    \* history: per id, payload of the latest publish_transcription
                    \*   call since the last publish_session_end call
    startsSinceEnd, \* history: per id, session_start records appended since the
                    \*   last publish_session_end call
    startCalls,     \* history: per id, publish_session_start calls since then
    everFailed,     \* history: some Redis operation has failed
    nCalls,         \* history: publisher calls made
    hpc,            \* where handler() stands
    ws,             \* the client connection: "open", "lost" (the client went
                    \*   away: recv or send raised ConnectionClosed) or
                    \*   "closed" (handler returned and the server closed it)
    session,        \* handler's session is not None
    config,         \* handler's config, the parsed handshake message
    dg,             \* ClientSession.dg_connection and its stream (see DgStates)
    cb_loop,        \* asyncio.get_event_loop() succeeds in the callback's thread
    cbpc,           \* where _on_transcript stands in the SDK's thread
    scheduled,      \* the event loop's ready queue: the pushes handed to
                    \*   call_soon_threadsafe and the send tasks made of them
    sent,           \* messages sent to the client, in order
    audio_sent,     \* audio frames handed to the upstream stream
    speaker_events, \* records of the stream REDIS_SPEAKER_EVENTS_KEY
    nMsgs,          \* messages read by the dispatch loop
    teardown,       \* history: what close() did, in order
    exit,           \* how handler left its try block: "running" (it has not),
                    \*   "returned" (return, break), "closed" (ConnectionClosed,
                    \*   server.py:426), "error" (any other exception, 429)
    steps,         \* results applied since the initial state
    segments,      \* ClientSession._segments
    segment_id,    \* ClientSession._segment_id
    finalIds,      \* history: ids of the segments built by final results, in order
    utterance,     \* history: shape of the results applied so far (see Track)
    lastResult,    \* history: the non-empty result applied last
    applied        \* history: number of non-empty results applied

bufVars == <<segments, segment_id, finalIds, utterance, lastResult, applied>>

pubVars == <<client, session_starts, last_digest, log>>

pubHist == <<lastCall, prevPayload, startsSinceEnd, startCalls, everFailed, nCalls>>

sessVars == <<hpc, ws, session, config, dg, cb_loop, cbpc, scheduled, sent,
              audio_sent, speaker_events, nMsgs, teardown, exit>>

vars == <<client, session_starts, last_digest, log, lastCall, prevPayload,
          startsSinceEnd, startCalls, everFailed, nCalls,
          hpc, ws, session, config, dg, cb_loop, cbpc, scheduled, sent,
          audio_sent, speaker_events, nMsgs, teardown, exit,
          steps, segments, segment_id, finalIds, utterance, lastResult, applied>>

\* ------------------------------------------------------------ JSON payloads

\* A payload dict is the sequence of its <<key, value>> pairs in insertion
\* order.  The timestamps of session_start / session_end are never read and
\* are left out.
Get(d, k) == d[CHOOSE i \in DOMAIN d : d[i][1] = k][2]

HasKey(d, k) == \E i \in DOMAIN d : d[i][1] = k

\* server.py:98-105
StartPayload(who, sid) ==
    << <<"type", "session_start">>, <<"token", who.token>>,
       <<"platform", who.platform>>, <<"meeting_id", who.meeting_id>>,
       <<"uid", sid>> >>

\* server.py:117-124
EndPayload(who, sid) ==
    << <<"type", "session_end">>, <<"token", who.token>>,
       <<"platform", who.platform>>, <<"meeting_id", who.meeting_id>>,
       <<"uid", sid>> >>

\* server.py:143-150
TranscriptionPayload(who, segs, sid) ==
    << <<"type", "transcription">>, <<"token", who.token>>,
       <<"platform", who.platform>>, <<"meeting_id", who.meeting_id>>,
       <<"segments", segs>>, <<"uid", sid>> >>

\* The keys of the payloads in the order sort_keys puts them.
SortedKeys == <<"meeting_id", "platform", "segments", "token", "type", "uid">>

\* The pairs of d ordered by key.
SortByKey(d) ==
    LET present == SelectSeq(SortedKeys, LAMBDA k : HasKey(d, k))
    IN  [i \in 1..Len(present) |-> <<present[i], Get(d, present[i])>>]

\* JSON text is the sequence of its tokens: key, value, key, value, ...
Serialize(d) ==
    [i \in 1..(2 * Len(d)) |-> d[(i + 1) \div 2][IF i % 2 = 1 THEN 1 ELSE 2]]

\* json.dumps(payload): the pairs in insertion order (server.py:107, 126).
Dumps(d) == Serialize(d)

\* json.dumps(payload, sort_keys=True, separators=(",", ":")) (server.py:151):
\* the pairs ordered by key.
DumpsSorted(d) == Serialize(SortByKey(d))

\* The value a reader of the JSON text finds under key k.
JsonGet(j, k) == j[(CHOOSE i \in {x \in DOMAIN j : x % 2 = 1} : j[i] = k) + 1]

\* hashlib.sha1(...).hexdigest() (server.py:152), taken to be collision free.
Sha1(json) == <<"sha1", json>>

\* ------------------------------------------------------------ RedisPublisher

\* The publisher's fields as one record, for the methods below.
Pub == [client |-> client, session_starts |-> session_starts,
        last_digest |-> last_digest, log |-> log]

\* _ensure_connected (server.py:80-88): its return value, which is also
\* whether _client is set afterwards.
EnsureConnected(cl, e) == IF cl /\ e.reach THEN TRUE ELSE e.reach

\* _client.xadd(REDIS_STREAM_KEY, {"payload": json}) (server.py:107, 126, 158).
Xadd(lg, json) == Append(lg, [payload |-> json])

\* Mutant: the id is not added to _session_starts after the append.
PublishSessionStartUnmarked(P, who, sid, e) ==
    IF sid \in P.session_starts
    THEN P
    ELSE LET ok == EnsureConnected(P.client, e)
             P1 == [P EXCEPT !.client = ok]
         IN  IF ok /\ e.xadd
             THEN [P1 EXCEPT !.log = Xadd(@, Dumps(StartPayload(who, sid)))]
             ELSE P1

\* publish_session_start (server.py:92-111)
PublishSessionStart(P, who, sid, e) ==
    IF sid \in P.session_starts
    THEN P
    ELSE LET ok == EnsureConnected(P.client, e)
             P1 == [P EXCEPT !.client = ok]
         IN  IF ~ok
             THEN P1
             ELSE IF e.xadd
                  THEN [P1 EXCEPT !.log = Xadd(@, Dumps(StartPayload(who, sid))),
                                  !.session_starts = @ \cup {sid}]
                  ELSE P1

\* Mutant: the started marker is not discarded after the append.
PublishSessionEndKeepsMark(P, who, sid, e) ==
    LET ok == EnsureConnected(P.client, e)
        P1 == [P EXCEPT !.client = ok]
    IN  IF ok /\ e.xadd
        THEN [P1 EXCEPT !.log = Xadd(@, Dumps(EndPayload(who, sid))),
                        !.last_digest = [k \in DOMAIN @ \ {sid} |-> @[k]]]
        ELSE P1

\* publish_session_end (server.py:113-131)
PublishSessionEnd(P, who, sid, e) ==
    LET ok == EnsureConnected(P.client, e)
        P1 == [P EXCEPT !.client = ok]
    IN  IF ~ok
        THEN P1
        ELSE IF e.xadd
             THEN [P1 EXCEPT !.log = Xadd(@, Dumps(EndPayload(who, sid))),
                             !.session_starts = @ \ {sid},
                             !.last_digest =
                                 [k \in DOMAIN @ \ {sid} |-> @[k]]]
             ELSE P1

\* Mutant: the new digest is not stored.
StoreDigestDropped(ld, sid, digest) == ld

\* server.py:153-155: the stored digest after the dedupe test passed.
StoreDigest(ld, sid, digest) ==
    [k \in DOMAIN ld \cup {sid} |-> IF k = sid THEN digest ELSE ld[k]]

\* server.py:153: the dedupe test.
IsDuplicate(ld, sid, digest) == sid \in DOMAIN ld /\ ld[sid] = digest

\* publish_transcription (server.py:135-161).  e is what Redis answers to the
\* method's own operations, e2 what it answers inside the nested
\* publish_session_start.  After a failed nested _ensure_connected _client is
\* None and the xadd of line 158 raises.
PublishTranscription(P, who, segs, sid, e, e2) ==
    LET ok == EnsureConnected(P.client, e)
        P1 == [P EXCEPT !.client = ok]
    IN  IF ~ok
        THEN P1
        ELSE LET P2 == IF sid \notin P1.session_starts
                       THEN PublishSessionStart(P1, who, sid, e2)
                       ELSE P1
                 json == DumpsSorted(TranscriptionPayload(who, segs, sid))
                 digest == Sha1(json)
             IN  IF IsDuplicate(P2.last_digest, sid, digest)
                 THEN P2
                 ELSE LET P3 == [P2 EXCEPT
                                   !.last_digest = StoreDigest(@, sid, digest)]
                      IN  IF P3.client /\ e.xadd
                          THEN [P3 EXCEPT !.log = Xadd(@, json)]
                          ELSE P3

\* The publisher's fields after a call that left them as P.
SetPub(P) ==
    /\ client' = P.client
    /\ session_starts' = P.session_starts
    /\ last_digest' = P.last_digest
    /\ log' = P.log

\* RedisPublisher.__init__ (server.py:62-69): _connect() succeeded or not.
InitPub ==
    /\ client \in BOOLEAN
    /\ session_starts = {}
    /\ last_digest = << >>
    /\ log = << >>

\* --------------------------------------------------- records of the log

RecType(rec) == JsonGet(rec.payload, "type")
RecUid(rec) == JsonGet(rec.payload, "uid")

IsRec(rec, type, sid) == RecType(rec) = type /\ RecUid(rec) = sid

CountRecs(lg, type, sid) ==
    Cardinality({i \in DOMAIN lg : IsRec(lg[i], type, sid)})

\* ------------------------------------------------------- call history

NoCall == [op |-> "none"]

InitPubHist ==
    /\ lastCall = NoCall
    /\ prevPayload = [s \in Sids |-> {}]
    /\ startsSinceEnd = [s \in Sids |-> 0]
    /\ startCalls = [s \in Sids |-> 0]
    /\ everFailed = FALSE
    /\ nCalls = 0

\* session_start records for sid appended by the step.
NewStarts(sid) == CountRecs(log', "session_start", sid) - CountRecs(log, "session_start", sid)

\* The history after a publisher call.
Record(call, sid, good) ==
    /\ lastCall' = [call EXCEPT !.appended = Len(log') - Len(log)]
    /\ everFailed' = (everFailed \/ ~good)
    /\ nCalls' = nCalls + 1
    /\ startsSinceEnd' =
         [startsSinceEnd EXCEPT ![sid] =
            IF call.op = "session_end" THEN 0 ELSE @ + NewStarts(sid)]
    /\ startCalls' =
         [startCalls EXCEPT ![sid] =
            CASE call.op = "session_end" -> 0
              [] call.op = "session_start" -> @ + 1
              [] OTHER -> @]
    /\ prevPayload' =
         [prevPayload EXCEPT ![sid] =
            CASE call.op = "session_end" -> {}
              [] call.op = "transcription" -> {call.json}
              [] OTHER -> @]

\* ------------------------------------------------ ClientSession._on_transcript

\* Mutant: the oldest n elements are kept.
FirstN(s, n) == SubSeq(s, 1, n)

\* s[-n:] for Len(s) >= n (server.py:288)
LastN(s, n) == SubSeq(s, Len(s) - n + 1, Len(s))

\* server.py:271-278
NewSegment(id, r) == [id |-> id, text |-> r.text, completed |-> r.is_final]

\* Mutant: the counter is not advanced on a final result.
NextSegmentIdStuck(id, r) == id

\* server.py:280-281
NextSegmentId(id, r) == IF r.is_final THEN id + 1 ELSE id

\* server.py:284-294
UpdateSegments(segs, seg, r) ==
    IF r.is_final \/ r.speech_final
    THEN LET a == Append(segs, seg)
         IN  IF Len(a) > Capacity THEN LastN(a, Capacity) ELSE a
    ELSE IF Len(segs) > 0 /\ ~segs[Len(segs)].completed
         THEN [segs EXCEPT ![Len(segs)] = seg]
         ELSE Append(segs, seg)

\* server.py:261-262
IsNoop(r) == r.text = EmptyText

\* History of the shape of the results applied to a window that started empty:
\* "empty" (none yet), "interims" (one or more interim results and nothing
\* else), "closed" (one or more interims, then one final result, nothing
\* after), "finals" (one or more final results and nothing else), "other".
Track(u, r) ==
    IF r.is_final
    THEN CASE u = "interims" -> "closed"
           [] u \in {"empty", "finals"} -> "finals"
           [] OTHER -> "other"
    ELSE IF r.speech_final THEN "other"
         ELSE IF u \in {"empty", "interims"} THEN "interims" ELSE "other"

\* The session after k consecutive final results "hello" applied to the
\* freshly constructed session (server.py:197-198): the window's fold over
\* UpdateSegments, so that long runs start near the capacity.
NoResult == [text |-> EmptyText, is_final |-> FALSE, speech_final |-> FALSE]
HelloFinal == [text |-> "hello", is_final |-> TRUE, speech_final |-> FALSE]

RECURSIVE AfterFinals(_)
AfterFinals(k) ==
    IF k = 0
    THEN [segments |-> << >>, segment_id |-> 0, finalIds |-> << >>]
    ELSE LET p == AfterFinals(k - 1)
             seg == NewSegment(p.segment_id, HelloFinal)
         IN  [segments |-> UpdateSegments(p.segments, seg, HelloFinal),
              segment_id |-> NextSegmentId(p.segment_id, HelloFinal),
              finalIds |-> Append(p.finalIds, seg.id)]

Prefills == {0, Capacity - 2}

\* ------------------------------------------------------------ the connection

\* The handshake's required fields (server.py:364).
Required == {"uid", "platform", "meeting_url", "token", "meeting_id"}

\* A field the config does not have; "" is an empty value.
Absent == "<absent>"

ValidConfig == [uid |-> "a1", platform |-> "zoom", meeting_url |-> "https://x",
                token |-> "t", meeting_id |-> "m1"]

\* The valid config, and the configs with one required field absent or empty.
Configs ==
    {ValidConfig} \cup
    {[ValidConfig EXCEPT ![f] = v] : f \in Required, v \in {Absent, ""}}

NoConfig == [f \in Required |-> Absent]

\* Mutant: an empty value counts as present.
MissingOnlyAbsent(cfg) == {f \in Required : cfg[f] = Absent}

\* server.py:365: the fields config.get(f) finds falsy.
Missing(cfg) == {f \in Required : cfg[f] \in {Absent, ""}}

\* config.get("uid", "unknown") (server.py:368, 378)
EchoUid(cfg) == IF cfg.uid = Absent THEN "unknown" ELSE cfg.uid

\* The identity fields of the session (server.py:188-191).
Ident(cfg) == [token |-> cfg.token, platform |-> cfg.platform,
               meeting_id |-> cfg.meeting_id]

\* dg_connection: "none" (None), "unstarted" (a handle whose start() failed),
\* "open" (started: the SDK's thread delivers results), "finished" (finish()
\* returned: the SDK's thread has ended), "close_failed" (finish() raised:
\* the stream was not shut down).
DgStates == {"none", "unstarted", "open", "finished", "close_failed"}

\* The stream is delivering results.
Live == dg \in {"open", "close_failed"}

\* Before any connection: the server is listening (server.py:343, 460-469).
InitSess ==
    /\ hpc = "recv_config"
    /\ ws = "open"
    /\ session = FALSE
    /\ config = NoConfig
    /\ dg = "none"
    /\ cb_loop \in BOOLEAN
    /\ cbpc = "idle"
    /\ scheduled = << >>
    /\ sent = << >>
    /\ audio_sent = 0
    /\ speaker_events = 0
    /\ nMsgs = 0
    /\ teardown = << >>
    /\ exit = "running"

\* No connection is handled.
InitSessIdle ==
    /\ hpc = "done"
    /\ ws = "closed"
    /\ session = FALSE
    /\ config = NoConfig
    /\ dg = "none"
    /\ cb_loop = FALSE
    /\ cbpc = "idle"
    /\ scheduled = << >>
    /\ sent = << >>
    /\ audio_sent = 0
    /\ speaker_events = 0
    /\ nMsgs = 0
    /\ teardown = << >>
    /\ exit = "returned"

InitBuf ==
    \E k \in Prefills :
        /\ segments = AfterFinals(k).segments
        /\ segment_id = AfterFinals(k).segment_id
        /\ finalIds = AfterFinals(k).finalIds
        /\ utterance = IF k = 0 THEN "empty" ELSE "finals"
        /\ lastResult = IF k = 0 THEN NoResult ELSE HelloFinal
        /\ applied = k
        /\ steps = 0

\* The window after a result (server.py:254-294), with its history.
WindowStep(r) ==
    IF IsNoop(r)
    THEN UNCHANGED bufVars
    ELSE /\ segments' = UpdateSegments(segments, NewSegment(segment_id, r), r)
         /\ segment_id' = NextSegmentId(segment_id, r)
         /\ finalIds' = IF r.is_final
                        THEN Append(finalIds, NewSegment(segment_id, r).id)
                        ELSE finalIds
         /\ utterance' = Track(utterance, r)
         /\ lastResult' = r
         /\ applied' = applied + 1

\* One result applied to the window.
BufApply(r) ==
    /\ steps < MaxSteps
    /\ steps' = steps + 1
    /\ WindowStep(r)
    /\ UNCHANGED <<pubVars, pubHist, sessVars>>

NextBuf == \E r \in Results : BufApply(r)

\* The segment window under any sequence of upstream results.
InitSpecBuf == InitBuf /\ InitPub /\ InitPubHist /\ InitSessIdle

SpecBuf == InitSpecBuf /\ [][NextBuf]_vars

\* ------------------------------------------- the publisher under any calls

\* Windows a session passes to publish_transcription.
PubWindows == {AfterFinals(1).segments, AfterFinals(2).segments}

CallStart(sid, who, e) ==
    /\ nCalls < MaxCalls
    /\ SetPub(PublishSessionStart(Pub, who, sid, e))
    /\ Record([op |-> "session_start", uid |-> sid, good |-> e = GoodEnv, appended |-> 0],
              sid, e = GoodEnv)
    /\ UNCHANGED <<steps, bufVars, sessVars>>

CallEnd(sid, who, e) ==
    /\ nCalls < MaxCalls
    /\ SetPub(PublishSessionEnd(Pub, who, sid, e))
    /\ Record([op |-> "session_end", uid |-> sid, good |-> e = GoodEnv, appended |-> 0],
              sid, e = GoodEnv)
    /\ UNCHANGED <<steps, bufVars, sessVars>>

CallTranscription(sid, who, segs, e, e2) ==
    /\ nCalls < MaxCalls
    /\ SetPub(PublishTranscription(Pub, who, segs, sid, e, e2))
    /\ Record([op |-> "transcription", uid |-> sid,
               json |-> DumpsSorted(TranscriptionPayload(who, segs, sid)),
               good |-> (e = GoodEnv /\ e2 = GoodEnv), appended |-> 0],
              sid, e = GoodEnv /\ e2 = GoodEnv)
    /\ UNCHANGED <<steps, bufVars, sessVars>>

NextPub ==
    \E sid \in Sids, who \in Idents, e \in Envs :
        \/ CallStart(sid, who, e)
        \/ CallEnd(sid, who, e)
        \/ \E segs \in PubWindows, e2 \in Envs :
               CallTranscription(sid, who, segs, e, e2)

InitBufIdle ==
    /\ segments = << >>
    /\ segment_id = 0
    /\ finalIds = << >>
    /\ utterance = "empty"
    /\ lastResult = NoResult
    /\ applied = 0
    /\ steps = 0

InitSpecPub == InitPub /\ InitPubHist /\ InitBufIdle /\ InitSessIdle

SpecPub == InitSpecPub /\ [][NextPub]_vars

\* ------------------------------------------------- one connection: handler

\* The messages of the client protocol sent by the server.
ErrorMsg(cfg) == [kind |-> "ERROR", uid |-> EchoUid(cfg)]
ReadyMsg(uid) == [kind |-> "SERVER_READY", uid |-> uid]
\* The field "of" is history: the ordinal of the result the push was made for.
PushMsg(uid, segs, n) == [kind |-> "push", uid |-> uid, segments |-> segs, of |-> n]

\* await websocket.send(msg): up says whether the client is still connected;
\* the send raises ConnectionClosed otherwise.
SendOk(up) == ws = "open" /\ up

Send(msg, up) ==
    IF SendOk(up)
    THEN sent' = Append(sent, msg) /\ ws' = ws
    ELSE sent' = sent /\ ws' = "lost"

\* server.py:355, 426-435: the client went away before sending a config.
HandshakeClosed ==
    /\ hpc = "recv_config"
    /\ hpc' = "done"
    /\ ws' = "lost"
    /\ exit' = "closed"
    /\ UNCHANGED <<session, config, dg, cb_loop, cbpc, scheduled, sent,
                   audio_sent, speaker_events, nMsgs, teardown>>
    /\ UNCHANGED <<pubVars, pubHist, steps, bufVars>>

\* server.py:356-361, 429-435: the first message is not JSON, or is JSON but
\* no object (config.get raises).
HandshakeNonJson ==
    /\ hpc = "recv_config"
    /\ ws = "open"
    /\ hpc' = "done"
    /\ ws' = "closed"
    /\ exit' = "error"
    /\ UNCHANGED <<session, config, dg, cb_loop, cbpc, scheduled, sent,
                   audio_sent, speaker_events, nMsgs, teardown>>
    /\ UNCHANGED <<pubVars, pubHist, steps, bufVars>>

\* server.py:363-372, 432-435: required fields are missing.
HandshakeMissing(cfg, up) ==
    /\ hpc = "recv_config"
    /\ ws = "open"
    /\ Missing(cfg) # {}
    /\ config' = cfg
    /\ sent' = IF SendOk(up) THEN Append(sent, ErrorMsg(cfg)) ELSE sent
    /\ hpc' = "done"
    /\ ws' = IF SendOk(up) THEN "closed" ELSE "lost"
    /\ exit' = IF SendOk(up) THEN "returned" ELSE "closed"
    /\ UNCHANGED <<session, dg, cb_loop, cbpc, scheduled,
                   audio_sent, speaker_events, nMsgs, teardown>>
    /\ UNCHANGED <<pubVars, pubHist, steps, bufVars>>

\* server.py:355-366, 375: a valid config; the session is constructed.
HandshakeValid(cfg) ==
    /\ hpc = "recv_config"
    /\ ws = "open"
    /\ Missing(cfg) = {}
    /\ session' = TRUE
    /\ config' = cfg
    /\ hpc' = "start"
    /\ UNCHANGED <<ws, dg, cb_loop, cbpc, scheduled, sent,
                   audio_sent, speaker_events, nMsgs, teardown, exit>>
    /\ UNCHANGED <<pubVars, pubHist, steps, bufVars>>

\* server.py:202-204, 240-242, 376-382: DeepgramClient(...) or
\* listen.websocket.v("1") raises, dg_connection stays None; start() returns
\* False and handler replies ERROR.
StartNoHandle(up) ==
    /\ hpc = "start"
    /\ dg' = "none"
    /\ Send(ErrorMsg(config), up)
    /\ hpc' = "close"
    /\ exit' = IF SendOk(up) THEN "returned" ELSE "closed"
    /\ UNCHANGED <<session, config, cb_loop, cbpc, scheduled,
                   audio_sent, speaker_events, nMsgs, teardown>>
    /\ UNCHANGED <<pubVars, pubHist, steps, bufVars>>

\* Mutant: the return value of dg_connection.start(options) is not looked at.
StartRefusedGoesOn(up) ==
    /\ hpc = "start"
    /\ dg' = "unstarted"
    /\ SetPub(PublishSessionStart(Pub, Ident(config), config.uid, GoodEnv))
    /\ Send(ReadyMsg(config.uid), up)
    /\ hpc' = IF SendOk(up) THEN "loop" ELSE "close"
    /\ exit' = IF SendOk(up) THEN exit ELSE "closed"
    /\ UNCHANGED <<session, config, cb_loop, cbpc, scheduled,
                   audio_sent, speaker_events, nMsgs, teardown>>
    /\ UNCHANGED <<pubHist, steps, bufVars>>

\* server.py:204-224, 240-242, 376-382: dg_connection.start(options) returns
\* False or raises; the handle stays assigned.
StartRefused(up) ==
    /\ hpc = "start"
    /\ dg' = "unstarted"
    /\ Send(ErrorMsg(config), up)
    /\ hpc' = "close"
    /\ exit' = IF SendOk(up) THEN "returned" ELSE "closed"
    /\ UNCHANGED <<session, config, cb_loop, cbpc, scheduled,
                   audio_sent, speaker_events, nMsgs, teardown>>
    /\ UNCHANGED <<pubVars, pubHist, steps, bufVars>>

\* server.py:222-242, 376-385: the stream opens; session_start is published
\* and SERVER_READY sent.  If that send raises, start() returns False and
\* handler's ERROR reply raises as well: the loop is not entered.
StartOpen(e, up) ==
    /\ hpc = "start"
    /\ dg' = "open"
    /\ SetPub(PublishSessionStart(Pub, Ident(config), config.uid, e))
    /\ Send(ReadyMsg(config.uid), up)
    /\ hpc' = IF SendOk(up) THEN "loop" ELSE "close"
    /\ exit' = IF SendOk(up) THEN exit ELSE "closed"
    /\ UNCHANGED <<session, config, cb_loop, cbpc, scheduled,
                   audio_sent, speaker_events, nMsgs, teardown>>
    /\ UNCHANGED <<pubHist, steps, bufVars>>

\* server.py:385, 426-428: the client closed the connection.
LoopClosed ==
    /\ hpc = "loop"
    /\ ws' = "lost"
    /\ hpc' = "close"
    /\ exit' = "closed"
    /\ UNCHANGED <<session, config, dg, cb_loop, cbpc, scheduled, sent,
                   audio_sent, speaker_events, nMsgs, teardown>>
    /\ UNCHANGED <<pubVars, pubHist, steps, bufVars>>

\* The client sends another message (within the bounds).
MoreMessages == nMsgs < MaxMsgs /\ nMsgs + steps < MaxEvents

\* A message is read by the dispatch loop (server.py:385).
ReadMessage ==
    /\ hpc = "loop"
    /\ ws = "open"
    /\ MoreMessages
    /\ nMsgs' = nMsgs + 1

\* server.py:388-390: the END_OF_AUDIO sentinel.
LoopEndOfAudio ==
    /\ ReadMessage
    /\ hpc' = "close"
    /\ exit' = "returned"
    /\ UNCHANGED <<ws, session, config, dg, cb_loop, cbpc, scheduled, sent,
                   audio_sent, speaker_events, teardown>>
    /\ UNCHANGED <<pubVars, pubHist, steps, bufVars>>

\* server.py:392-396, 244-250: a frame of whole float32 samples is converted
\* and handed to dg_connection.send, which succeeds (accepted) or raises.
LoopAudio(accepted) ==
    /\ ReadMessage
    /\ audio_sent' = IF dg # "none" /\ accepted THEN audio_sent + 1 ELSE audio_sent
    /\ UNCHANGED <<hpc, ws, session, config, dg, cb_loop, cbpc, scheduled, sent,
                   speaker_events, teardown, exit>>
    /\ UNCHANGED <<pubVars, pubHist, steps, bufVars>>

\* server.py:393-398: a frame whose length is not a multiple of 4:
\* np.frombuffer raises, the frame is dropped.
LoopMalformedAudio ==
    /\ ReadMessage
    /\ UNCHANGED <<hpc, ws, session, config, dg, cb_loop, cbpc, scheduled, sent,
                   audio_sent, speaker_events, teardown, exit>>
    /\ UNCHANGED <<pubVars, pubHist, steps, bufVars>>

\* server.py:401-409: a speaker_activity[_update] message with a truthy
\* payload, a mapping or not; handler calls publish_speaker_event, a
\* synchronous call made on the event loop's thread.
LoopSpeakerRead(mapping) ==
    /\ ReadMessage
    /\ hpc' = IF mapping THEN "speaker" ELSE "speaker_bad"
    /\ UNCHANGED <<ws, session, config, dg, cb_loop, cbpc, scheduled, sent,
                   audio_sent, speaker_events, teardown, exit>>
    /\ UNCHANGED <<pubVars, pubHist, steps, bufVars>>

\* publish_speaker_event (server.py:165-173) answers and the loop goes on.
LoopSpeaker(e) ==
    /\ hpc = "speaker"
    /\ hpc' = "loop"
    /\ client' = EnsureConnected(client, e)
    /\ speaker_events' = IF EnsureConnected(client, e) /\ e.xadd
                         THEN speaker_events + 1 ELSE speaker_events
    /\ UNCHANGED <<ws, session, config, dg, cb_loop, cbpc, scheduled, sent,
                   audio_sent, nMsgs, teardown, exit>>
    /\ UNCHANGED <<session_starts, last_digest, log, pubHist, steps, bufVars>>

\* server.py:165-169, 429-431: the payload is no mapping: past
\* _ensure_connected, {**event_payload, ...} raises TypeError outside any try
\* of the publisher, and the loop ends.
LoopSpeakerBadPayload(e) ==
    /\ hpc = "speaker_bad"
    /\ client' = EnsureConnected(client, e)
    /\ hpc' = IF EnsureConnected(client, e) THEN "close" ELSE "loop"
    /\ exit' = IF EnsureConnected(client, e) THEN "error" ELSE exit
    /\ UNCHANGED <<ws, session, config, dg, cb_loop, cbpc, scheduled, sent,
                   audio_sent, speaker_events, nMsgs, teardown>>
    /\ UNCHANGED <<session_starts, last_digest, log, pubHist, steps, bufVars>>

\* Text messages without effect.
IgnoredKinds == {"speaker_no_payload", "session_control", "audio_chunk_metadata",
                 "unknown_type", "non_json"}

\* server.py:401-424: a control message that is only logged, or text that is
\* not JSON.
LoopIgnored(kind) ==
    /\ ReadMessage
    /\ kind \in IgnoredKinds
    /\ UNCHANGED <<hpc, ws, session, config, dg, cb_loop, cbpc, scheduled, sent,
                   audio_sent, speaker_events, teardown, exit>>
    /\ UNCHANGED <<pubVars, pubHist, steps, bufVars>>

\* server.py:403-404, 412-413, 429-431: JSON text that is not an object (or a
\* session_control whose payload is not one): .get raises AttributeError,
\* which only the handler's outer except catches.
LoopNonObject ==
    /\ ReadMessage
    /\ hpc' = "close"
    /\ exit' = "error"
    /\ UNCHANGED <<ws, session, config, dg, cb_loop, cbpc, scheduled, sent,
                   audio_sent, speaker_events, teardown>>
    /\ UNCHANGED <<pubVars, pubHist, steps, bufVars>>

\* Mutant: an exception of finish() leaves close().
ContinuesAfterFinishOnlyIfClean(raised) == ~raised

\* server.py:328-333: an exception of finish() is caught and close() goes on.
ContinuesAfterFinish(raised) == TRUE

\* dg_connection after finish(): a finish() that returns has joined the SDK's
\* thread; one that raises leaves a started stream running.  A handle that
\* was never started has no stream and no thread, before and after.
AfterFinish(d, raised) ==
    IF d = "unstarted"
    THEN d
    ELSE IF raised
         THEN IF d = "open" THEN "close_failed" ELSE d
         ELSE "finished"

\* close() (server.py:326-337), reached through handler's finally
\* (server.py:432-435); when handler returns the server closes the connection.
CloseSession(raised, e) ==
    /\ hpc = "close"
    /\ session
    /\ (dg # "none" /\ ~raised) => cbpc = "idle"
    /\ dg' = IF dg = "none" THEN dg ELSE AfterFinish(dg, raised)
    /\ LET fin == IF dg = "none"
                  THEN << >>
                  ELSE << [call |-> "finish", ok |-> ~raised] >>
           goes == dg = "none" \/ ContinuesAfterFinish(raised)
       IN  IF goes
           THEN /\ SetPub(PublishSessionEnd(Pub, Ident(config), config.uid, e))
                /\ teardown' = teardown \o fin \o
                      << [call |-> "publish_session_end", ok |-> e = GoodEnv] >>
           ELSE /\ UNCHANGED pubVars
                /\ teardown' = teardown \o fin
    /\ hpc' = "done"
    /\ ws' = IF ws = "lost" THEN "lost" ELSE "closed"
    /\ exit' = exit
    /\ UNCHANGED <<session, config, cb_loop, cbpc, scheduled, sent,
                   audio_sent, speaker_events, nMsgs>>
    /\ UNCHANGED <<pubHist, steps, bufVars>>

\* ------------------------------------------ the SDK's thread: _on_transcript

\* The entries of the ready queue (server.py:302-305): the callback
\* asyncio.ensure_future(coro) registered by call_soon_threadsafe, and the
\* first step of the task that callback creates.  "of" is history, as in
\* PushMsg.
ReadyCallback(segs, n) == [stage |-> "callback", segments |-> segs, of |-> n]
ReadyTask(entry) == [entry EXCEPT !.stage = "task"]

\* Mutant: the loop runs the entry registered last.
NextReadyNewest(q) == Len(q)

\* The entry the loop runs next: the one registered first (asyncio runs
\* callbacks in the order in which they were registered).
NextReady(q) == 1

RemoveAt(q, i) == SubSeq(q, 1, i - 1) \o SubSeq(q, i + 1, Len(q))

\* _on_transcript up to the scheduling of the push (server.py:254-305).  The
\* stream produces results only from audio it was sent.  Where
\* asyncio.get_event_loop() raises in the callback's thread the except of
\* server.py:314 ends the callback after the window was updated.
DeliverResult(r) ==
    /\ Live
    /\ audio_sent >= 1
    /\ cbpc = "idle"
    /\ steps < MaxLive
    /\ nMsgs + steps < MaxEvents
    /\ steps' = steps + 1
    /\ WindowStep(r)
    /\ IF IsNoop(r) \/ ~cb_loop
       THEN UNCHANGED <<scheduled, cbpc>>
       ELSE /\ scheduled' = Append(scheduled, ReadyCallback(segments', applied'))
            /\ cbpc' = IF r.is_final THEN "publish" ELSE "idle"
    /\ UNCHANGED <<hpc, ws, session, config, dg, cb_loop, sent,
                   audio_sent, speaker_events, nMsgs, teardown, exit>>
    /\ UNCHANGED <<pubVars, pubHist>>

\* What Redis can answer inside the nested publish_session_start, which is
\* called only past _ensure_connected and for an unmarked id
\* (server.py:137-141).
NestedEnvs(e) ==
    IF EnsureConnected(client, e) /\ config.uid \notin session_starts
    THEN Envs
    ELSE {GoodEnv}

\* _on_transcript, the publish of a final result (server.py:307-312).
CbPublish(e, e2) ==
    /\ cbpc = "publish"
    /\ SetPub(PublishTranscription(Pub, Ident(config), segments, config.uid, e, e2))
    /\ cbpc' = "idle"
    /\ UNCHANGED <<hpc, ws, session, config, dg, cb_loop, scheduled, sent,
                   audio_sent, speaker_events, nMsgs, teardown, exit>>
    /\ UNCHANGED <<pubHist, steps, bufVars>>

\* The event loop's thread is not inside a synchronous publisher call of
\* handler (server.py:409), so the loop can run something else.
LoopFree == hpc \notin {"speaker", "speaker_bad"}

\* The loop runs a registered callback: ensure_future wraps the coroutine of
\* _safe_send_to_bot in a task, whose first step joins the ready queue
\* (server.py:302-305).
RunCallback ==
    /\ LoopFree
    /\ scheduled # << >>
    /\ LET i == NextReady(scheduled)
       IN  /\ scheduled[i].stage = "callback"
           /\ scheduled' = Append(RemoveAt(scheduled, i), ReadyTask(scheduled[i]))
    /\ UNCHANGED <<hpc, ws, session, config, dg, cb_loop, cbpc, sent,
                   audio_sent, speaker_events, nMsgs, teardown, exit>>
    /\ UNCHANGED <<pubVars, pubHist, steps, bufVars>>

\* The loop runs the task of one push: _safe_send_to_bot (server.py:317-321)
\* sends the message; what the send raises is dropped.
SendPush(up) ==
    /\ LoopFree
    /\ scheduled # << >>
    /\ LET i == NextReady(scheduled)
       IN  /\ scheduled[i].stage = "task"
           /\ Send(PushMsg(config.uid, scheduled[i].segments, scheduled[i].of), up)
           /\ scheduled' = RemoveAt(scheduled, i)
    /\ UNCHANGED <<hpc, session, config, dg, cb_loop, cbpc,
                   audio_sent, speaker_events, nMsgs, teardown, exit>>
    /\ UNCHANGED <<pubVars, pubHist, steps, bufVars>>

\* The results the stream of Spec delivers, one for each case _on_transcript
\* tells apart (server.py:261, 280, 284): no transcript, interim,
\* speech-final only, final (a final result that is also speech-final takes
\* the same branches as one that is not).
LiveResults ==
    {r \in Results : /\ r.text \in {"hello", EmptyText}
                     /\ r.text = EmptyText => (~r.is_final /\ ~r.speech_final)
                     /\ r.is_final => ~r.speech_final}

Next ==
    \/ HandshakeClosed
    \/ HandshakeNonJson
    \/ \E cfg \in Configs, up \in BOOLEAN : HandshakeMissing(cfg, up)
    \/ \E cfg \in Configs : HandshakeValid(cfg)
    \/ \E up \in BOOLEAN : StartNoHandle(up)
    \/ \E up \in BOOLEAN : StartRefused(up)
    \/ \E e \in Envs, up \in BOOLEAN : StartOpen(e, up)
    \/ LoopClosed
    \/ LoopEndOfAudio
    \/ \E accepted \in BOOLEAN : LoopAudio(accepted)
    \/ LoopMalformedAudio
    \/ \E mapping \in BOOLEAN : LoopSpeakerRead(mapping)
    \/ \E e \in Envs : LoopSpeaker(e)
    \/ \E e \in Envs : LoopSpeakerBadPayload(e)
    \/ \E kind \in IgnoredKinds : LoopIgnored(kind)
    \/ LoopNonObject
    \/ \E raised \in BOOLEAN, e \in Envs : CloseSession(raised, e)
    \/ \E r \in LiveResults : DeliverResult(r)
    \/ \E e \in Envs : \E e2 \in NestedEnvs(e) : CbPublish(e, e2)
    \/ RunCallback
    \/ \E up \in BOOLEAN : SendPush(up)

Init == InitPub /\ InitPubHist /\ InitBufIdle /\ InitSess

\* One connection from accept to teardown, with the SDK's thread and the
\* event loop's send tasks.
Spec == Init /\ [][Next]_vars

\* =================================================================== claims

\* ------------------------------------------------------- the segment window

\* C1: after any sequence of upstream results the window never holds more
\* than Capacity segments.
C1_WindowWithinCapacity == Len(segments) <= Capacity

\* C2: at most one segment of the window is incomplete and, if one is, it is
\* the last: every segment before the last is completed.
C2_OnlyLastIncomplete ==
    \A i \in 1..(Len(segments) - 1) : segments[i].completed

\* C3: from an empty window, one or more interim results followed by the
\* final result leave exactly one segment: completed, with the final text,
\* and exactly one id consumed.
C3_InterimsThenFinal ==
    utterance = "closed" =>
        /\ Len(segments) = 1
        /\ segments[1].completed
        /\ segments[1].text = lastResult.text
        /\ segment_id = 1

\* C4: the ids of completed segments strictly increase in the order the
\* segments were finalized, no id is given to two completed segments, and the
\* completed segments still in the window carry those ids in that order.
C4_CompletedIdsIncrease ==
    /\ \A i, j \in DOMAIN finalIds : i < j => finalIds[i] < finalIds[j]
    /\ \A i, j \in DOMAIN segments :
          (i < j /\ segments[i].completed /\ segments[j].completed)
              => segments[i].id < segments[j].id
    /\ \A i \in DOMAIN segments :
          segments[i].completed =>
              \E k \in DOMAIN finalIds : finalIds[k] = segments[i].id

\* C4 witness: more finals than the window holds (segments were evicted),
\* mixed with a result that is not final.
C4_Witness ==
    /\ Len(finalIds) > Capacity
    /\ utterance = "other"
    /\ \E i \in DOMAIN segments : ~segments[i].completed

\* C17: from an empty window, after k > Capacity final results in a row (k is
\* applied) the window holds exactly the Capacity most recent segments in
\* arrival order: all completed, with the ids k - Capacity .. k - 1 given
\* when they were finalized, the last one with the text of the last result;
\* the older ones are gone and the counter stands at k.
C17_LongRunOfFinals ==
    (utterance = "finals" /\ applied > Capacity) =>
        /\ Len(segments) = Capacity
        /\ \A i \in 1..Capacity :
               /\ segments[i].id = applied - Capacity + i - 1
               /\ segments[i].completed
        /\ segments[Capacity].text = lastResult.text
        /\ segment_id = applied
        /\ Len(finalIds) = applied

\* C17 witness: 13 final results in a row; the window holds ids 3 .. 12.
C17_Witness ==
    /\ utterance = "finals"
    /\ applied = Capacity + 3
    /\ Len(segments) = Capacity
    /\ segments[1].id = 3
    /\ segments[Capacity].id = Capacity + 2

\* ------------------------------------------------------------ the publisher

\* C6: every transcription record of an id is preceded by a session_start
\* record of that id with no session_end record of that id in between.
C6_TranscriptionAfterStart ==
    \A i \in DOMAIN log :
        RecType(log[i]) = "transcription" =>
            \E j \in 1..(i - 1) :
                /\ IsRec(log[j], "session_start", RecUid(log[i]))
                /\ \A k \in (j + 1)..(i - 1) :
                       ~IsRec(log[k], "session_end", RecUid(log[i]))

\* C8: for every id at most one session_start record is appended between two
\* consecutive publish_session_end calls (or since the start); with a
\* reachable log and at least one publish_session_start call, exactly one.
C8_OneStartBetweenEnds ==
    \A sid \in Sids :
        /\ startsSinceEnd[sid] <= 1
        /\ (~everFailed /\ startCalls[sid] >= 1) => startsSinceEnd[sid] = 1

\* C8 witness: two publish_session_start calls for one id, log reachable,
\* one record.
C8_Witness ==
    \E sid \in Sids :
        /\ ~everFailed
        /\ startCalls[sid] >= 2
        /\ startsSinceEnd[sid] = 1
        /\ CountRecs(log, "session_start", sid) = 1

\* Transcription records the step appends for sid.
NewTranscriptions(sid) ==
    CountRecs(log', "transcription", sid) - CountRecs(log, "transcription", sid)

\* C9: with a reachable log a publish_transcription call appends a record if
\* and only if its canonical payload differs from that of the call before it
\* for the same id since the last publish_session_end.
C9_DedupAgainstPreviousCall ==
    [][ (lastCall'.op = "transcription" /\ ~everFailed') =>
            LET sid == lastCall'.uid
            IN  /\ NewTranscriptions(sid) =
                       IF prevPayload[sid] = {lastCall'.json} THEN 0 ELSE 1
                /\ NewTranscriptions(sid) = 1 =>
                       log'[Len(log')] = [payload |-> lastCall'.json]
      ]_vars

\* C9 witness: payloads A, B, A for one id, log reachable: three records.
C9_Witness ==
    \E sid \in Sids :
        /\ ~everFailed
        /\ nCalls = 3
        /\ Len(log) = 4
        /\ IsRec(log[2], "transcription", sid)
        /\ IsRec(log[3], "transcription", sid)
        /\ IsRec(log[4], "transcription", sid)
        /\ log[2] = log[4]
        /\ log[2] # log[3]

\* After the step the id is not marked started and has no stored digest.
ClearedNext(sid) == sid \notin session_starts' /\ sid \notin DOMAIN last_digest'

\* The step is a publish_session_start for the id of the publish_session_end
\* call before it, with a reachable log.
StartRightAfterEnd ==
    /\ lastCall.op = "session_end"
    /\ lastCall'.op = "session_start"
    /\ lastCall'.uid = lastCall.uid
    /\ lastCall'.good

\* C10 as stated: after any publish_session_end call the id is not marked
\* started and has no stored digest, so the next publish_session_start for it
\* appends a session_start record.
C10_EndAlwaysClears ==
    [][ /\ lastCall'.op = "session_end" => ClearedNext(lastCall'.uid)
        /\ StartRightAfterEnd => NewStarts(lastCall'.uid) = 1
      ]_vars

\* C10 amended: a publish_session_end call that appended its record leaves
\* the id not marked started and without stored digest; a call that appended
\* nothing leaves marker and digest as they were; and a
\* publish_session_start call for an id that is not marked started appends,
\* with a reachable log, a session_start record and marks the id.
C10_AppendedEndClears ==
    [][ /\ (lastCall'.op = "session_end" /\ lastCall'.appended = 1)
            => ClearedNext(lastCall'.uid)
        /\ (lastCall'.op = "session_end" /\ lastCall'.appended = 0)
            => (session_starts' = session_starts /\ last_digest' = last_digest)
        /\ (lastCall'.op = "session_start" /\ lastCall'.good
                /\ lastCall'.uid \notin session_starts)
            => (NewStarts(lastCall'.uid) = 1 /\ lastCall'.uid \in session_starts')
      ]_vars

\* C10 witness: session_start, session_end, session_start appended for one id.
C10_Witness ==
    \E sid \in Sids :
        /\ Len(log) = 3
        /\ IsRec(log[1], "session_start", sid)
        /\ IsRec(log[2], "session_end", sid)
        /\ IsRec(log[3], "session_start", sid)
        /\ lastCall.op = "session_start"
        /\ sid \in session_starts

\* Positions of the transcription records of sid in the log.
TranscriptionsOf(sid) == {i \in DOMAIN log : IsRec(log[i], "transcription", sid)}

\* C19: the stored digest of an id is the digest of the transcription record
\* appended last for that id, so a payload suppressed as a duplicate is the
\* payload of that record, also after appends that failed.
C19_DigestDescribesLog ==
    \A sid \in DOMAIN last_digest :
        /\ TranscriptionsOf(sid) # {}
        /\ LET last == CHOOSE i \in TranscriptionsOf(sid) :
                           \A k \in TranscriptionsOf(sid) : k <= i
           IN  Sha1(log[last].payload) = last_digest[sid]

\* ------------------------------------------------------------ the connection

Calls(name) == SelectSeq(teardown, LAMBDA t : t.call = name)

\* C5: for a created session, however the handler leaves the loop and even if
\* finish() raises, close() runs once: upstream close is attempted, then
\* publish_session_end is called exactly once, and with a reachable log
\* exactly one session_end record is appended for the session.
C5_TeardownOnce ==
    /\ hpc # "done" => teardown = << >>
    /\ ~session => teardown = << >>
    /\ (hpc = "done" /\ session) =>
          /\ Len(Calls("publish_session_end")) = 1
          /\ teardown[Len(teardown)].call = "publish_session_end"
          /\ Len(Calls("finish")) = IF dg = "none" THEN 0 ELSE 1
          /\ CountRecs(log, "session_end", config.uid) =
                 IF Calls("publish_session_end")[1].ok THEN 1 ELSE 0

\* C5 witness: the dispatch loop was entered and left, finish() raised, and
\* the session_end record was appended.
C5_Witness ==
    /\ hpc = "done"
    /\ session
    /\ nMsgs >= 1
    /\ teardown = << [call |-> "finish", ok |-> FALSE],
                     [call |-> "publish_session_end", ok |-> TRUE] >>
    /\ CountRecs(log, "session_end", config.uid) = 1

C11_MissingFieldRejected ==
    (config \in Configs /\ \E f \in Required : config[f] \in {Absent, ""}) =>
        /\ hpc = "done"
        /\ ~session
        /\ sent = IF ws = "lost" THEN << >> ELSE << ErrorMsg(config) >>
        /\ dg = "none"
        /\ audio_sent = 0
        /\ scheduled = << >>
        /\ log = << >>
        /\ session_starts = {}
        /\ teardown = << >>

\* C11 witness: the handshake had an empty token; the client got the ERROR
\* reply with its uid and the connection was closed.
C11_Witness ==
    /\ hpc = "done"
    /\ config.token = ""
    /\ config.uid = "a1"
    /\ sent = << [kind |-> "ERROR", uid |-> "a1"] >>
    /\ ws = "closed"

\* The upstream stream of the created session could not be opened.
OpenFailed == session /\ hpc \in {"close", "done"} /\ dg \in {"none", "unstarted"}

\* The step sends SERVER_READY.
SendsReady ==
    /\ Len(sent') = Len(sent) + 1
    /\ sent'[Len(sent')].kind = "SERVER_READY"

\* C12: when opening the upstream stream fails the client gets the ERROR
\* reply (unless it has gone) and never SERVER_READY, no session_start record
\* is appended, no audio is forwarded, no result is applied or pushed and the
\* dispatch loop is not entered; the loop runs only on an opened stream after
\* SERVER_READY; and SERVER_READY is sent only in the step of start() that
\* opened the stream and called publish_session_start.
C12_OpenFailureNeverActive ==
    /\ [](OpenFailed =>
            /\ sent = IF ws = "lost" THEN << >> ELSE << ErrorMsg(config) >>
            /\ CountRecs(log, "session_start", config.uid) = 0
            /\ session_starts = {}
            /\ audio_sent = 0
            /\ nMsgs = 0
            /\ segments = << >>
            /\ scheduled = << >>)
    /\ [](hpc = "loop" =>
            /\ dg = "open"
            /\ sent # << >>
            /\ sent[1] = ReadyMsg(config.uid))
    /\ [][SendsReady =>
            /\ hpc = "start"
            /\ dg' = "open"
            /\ \E e \in Envs :
                   /\ client' = PublishSessionStart(Pub, Ident(config), config.uid, e).client
                   /\ log' = PublishSessionStart(Pub, Ident(config), config.uid, e).log
                   /\ session_starts' =
                          PublishSessionStart(Pub, Ident(config), config.uid, e).session_starts
         ]_vars

\* C12 witness: start(options) was refused; the client got the ERROR reply
\* and teardown has run.
C12_Witness ==
    /\ OpenFailed
    /\ hpc = "done"
    /\ dg = "unstarted"
    /\ sent = << ErrorMsg(config) >>
    /\ Len(Calls("publish_session_end")) = 1

\* ------------------------------------------------------- results and pushes

\* The step applies a result with a transcript to the window.
AppliesResult == applied' = applied + 1

\* C13: every result with a transcript delivered by the callback while the
\* session is active schedules exactly one push, whose segments are the
\* window as it is right after the result was applied.
C13_EveryResultPushed ==
    [][ (AppliesResult /\ hpc = "loop") =>
            scheduled' = Append(scheduled, ReadyCallback(segments', applied'))
      ]_vars

\* The pushes the client was sent, in the order of sending.
Pushes == SelectSeq(sent, LAMBDA m : m.kind = "push")

\* C14: the pushes reach the client connection in the order in which their
\* results were applied to the window, and none twice: a push for a later
\* result is never sent before the push for an earlier one, and a push
\* still waiting in the loop is for a later result than every push sent.
C14_PushesInOrder ==
    /\ \A i, j \in DOMAIN Pushes : i < j => Pushes[i].of < Pushes[j].of
    /\ \A i \in DOMAIN Pushes, k \in DOMAIN scheduled : Pushes[i].of < scheduled[k].of

\* C14 witness: two results were applied and both pushes were sent, the
\* window of the first result first.
C14_Witness ==
    /\ Len(Pushes) = 2
    /\ Pushes[1].of = 1
    /\ Pushes[2].of = 2
    /\ Pushes[1].segments # Pushes[2].segments
    /\ Pushes[2].segments = segments

\* C15: no error of one message ends an active session: the handler of a
\* created session leaves its try block through the end-of-audio sentinel,
\* a failed start() or the client's disconnect only, never through an
\* exception raised while a message was processed, so no teardown and no
\* session_end follows from one.
C15_MessageErrorsContained == session => exit # "error"

\* A call of the publisher is in progress: publish_speaker_event made by
\* handler, or publish_transcription made by the callback.
LogCallInProgress == hpc \in {"speaker", "speaker_bad"} \/ cbpc = "publish"

\* The session is active and the client has sent another message.
FramePending ==
    /\ hpc \in {"loop", "speaker", "speaker_bad"}
    /\ dg = "open"
    /\ ws = "open"
    /\ MoreMessages

\* C16: while a log append or reconnect issued for the session is in
\* progress, an audio frame the client has sent can be converted and handed
\* to the upstream stream.
C16_AudioNeverWaitsOnLog ==
    (LogCallInProgress /\ FramePending) => ENABLED LoopAudio(TRUE)

\* The step delivers a result to _on_transcript.
DeliversResult == steps' = steps + 1

\* C18: publish_transcription is invoked for a delivered result exactly when
\* the result is final: a result with a transcript that is not final (interim
\* or speech-final only) is applied to the window and pushed and leads to no
\* publish_transcription call and no record, a final one is applied, pushed
\* and handed to publish_transcription, and a result without transcript
\* changes neither window nor counter nor pushes nor log.
C18_PublishExactlyWhenFinal ==
    [][ DeliversResult =>
            /\ log' = log
            /\ IF ~AppliesResult
               THEN UNCHANGED <<segments, segment_id, scheduled, cbpc>>
               ELSE /\ scheduled' = Append(scheduled, ReadyCallback(segments', applied'))
                    /\ cbpc' = IF lastResult'.is_final THEN "publish" ELSE "idle"
      ]_vars

\* C20: every session_end record in the log is preceded by a session_start
\* record of the same id with no other session_end record of that id in
\* between, on every path to teardown.
C20_EndAfterStart ==
    \A j \in DOMAIN log :
        RecType(log[j]) = "session_end" =>
            \E i \in 1..(j - 1) :
                /\ IsRec(log[i], "session_start", RecUid(log[j]))
                /\ \A k \in (i + 1)..(j - 1) :
                       ~IsRec(log[k], "session_end", RecUid(log[j]))

====
